---- MODULE Spec2Model ----
\* Model of the MBTiles builder (src/Flutter/xyz_to_mbtiles.py) and of the tile
\* server's request handler (src/mbtiles_server.py).
\*
\* File names, URL paths and path segments are sequences of one-character
\* strings; tile blobs are sequences of byte values; metadata names and values
\* are strings.
EXTENDS Integers, Sequences, FiniteSets, TLC

\* ---------------------------------------------------------------------------
\* Bounds of the model
\* ---------------------------------------------------------------------------

\* Largest number of tile files one build run ingests.
MaxTiles == 3

\* ---------------------------------------------------------------------------
\* Program constants
\* ---------------------------------------------------------------------------

\* xyz_to_mbtiles.py:52 commits when count % 5000 == 0.  The model keeps the
\* cadence and scales the batch down so that runs of MaxTiles files cross it.
BatchSize == 2

\* xyz_to_mbtiles.py:23  z_min, z_max = 99, -1
ZMinSentinel == 99
ZMaxSentinel == -1

\* xyz_to_mbtiles.py:25  sort key of a top-level entry whose name is no number
NonDigitKey == 999

\* xyz_to_mbtiles.py:75  choices of --format
Formats == {"png", "jpg", "jpeg"}

\* xyz_to_mbtiles.py:77  args.dst, as path components
Dst == <<"web", "out.mbtiles">>

\* ---------------------------------------------------------------------------
\* Strings
\* ---------------------------------------------------------------------------

DigitChars == <<"0", "1", "2", "3", "4", "5", "6", "7", "8", "9">>

Digits == {DigitChars[i] : i \in 1..10}

DigitVal(c) == (CHOOSE i \in 1..10 : DigitChars[i] = c) - 1

\* str.isdigit(): non-empty and every character a digit
isdigit(s) == Len(s) > 0 /\ \A i \in 1..Len(s) : s[i] \in Digits

\* int(s) for a string of digits
RECURSIVE ParseNat(_)
ParseNat(s) ==
    IF Len(s) = 0 THEN 0
    ELSE ParseNat(SubSeq(s, 1, Len(s) - 1)) * 10 + DigitVal(s[Len(s)])

\* int(s) as the handler calls it, over segments of digits, letters, dots and
\* signs (no blanks, no underscores): an optional sign, then digits; anything
\* else raises ValueError (ok = FALSE)
PyInt(s) ==
    IF isdigit(s) THEN [ok |-> TRUE, val |-> ParseNat(s)]
    ELSE IF Len(s) > 1 /\ s[1] \in {"-", "+"} /\ isdigit(Tail(s))
         THEN [ok |-> TRUE,
               val |-> IF s[1] = "-" THEN 0 - ParseNat(Tail(s)) ELSE ParseNat(Tail(s))]
         ELSE [ok |-> FALSE, val |-> 0]

\* str(n) for an integer
RECURSIVE PyStr(_)
PyStr(n) ==
    IF n < 0 THEN "-" \o PyStr(0 - n)
    ELSE IF n < 10 THEN DigitChars[n + 1]
    ELSE PyStr(n \div 10) \o DigitChars[(n % 10) + 1]

\* str.lower() on the strings a format argument can be
Lower(s) ==
    CASE s \in {"png", "PNG", "Png"} -> "png"
      [] s \in {"jpg", "JPG", "Jpg"} -> "jpg"
      [] s \in {"jpeg", "JPEG", "Jpeg"} -> "jpeg"
      [] OTHER -> s

\* os.path.basename of a path given as its components
basename(p) == p[Len(p)]

\* str.endswith(suffix)
endswith(s, suf) ==
    Len(s) >= Len(suf) /\ SubSeq(s, Len(s) - Len(suf) + 1, Len(s)) = suf

DotPng == <<".", "p", "n", "g">>
DotJpg == <<".", "j", "p", "g">>
DotJpeg == <<".", "j", "p", "e", "g">>

HasTileExt(s) == endswith(s, DotPng) \/ endswith(s, DotJpg) \/ endswith(s, DotJpeg)

\* os.path.splitext(s)[0]: cut at the last dot, unless only dots precede it
splitext_root(s) ==
    LET dots == {i \in 1..Len(s) : s[i] = "."}
        last == CHOOSE i \in dots : \A j \in dots : j <= i
    IN  IF dots = {} THEN s
        ELSE IF \A j \in 1..(last - 1) : s[j] = "." THEN s
        ELSE SubSeq(s, 1, last - 1)

\* s.split(c)[0]: the text before the first c
split_first(s, c) ==
    LET at == {i \in 1..Len(s) : s[i] = c}
        first == CHOOSE i \in at : \A j \in at : i <= j
    IN  IF at = {} THEN s ELSE SubSeq(s, 1, first - 1)

\* s.strip(c)
RECURSIVE strip(_, _)
strip(s, c) ==
    IF Len(s) = 0 THEN s
    ELSE IF s[1] = c THEN strip(Tail(s), c)
    ELSE IF s[Len(s)] = c THEN strip(SubSeq(s, 1, Len(s) - 1), c)
    ELSE s

\* s.split(c)
RECURSIVE split(_, _)
split(s, c) ==
    LET at == {i \in 1..Len(s) : s[i] = c}
        first == CHOOSE i \in at : \A j \in at : i <= j
    IN  IF at = {} THEN <<s>>
        ELSE <<SubSeq(s, 1, first - 1)>> \o split(SubSeq(s, first + 1, Len(s)), c)

\* urllib.parse.urlparse(p).path for a path without scheme, host or params:
\* the text before the query and the fragment
urlparse_path(p) == split_first(split_first(p, "#"), "?")

\* 1 << z, for z >= 0
RECURSIVE Shl1(_)
Shl1(z) == IF z = 0 THEN 1 ELSE 2 * Shl1(z - 1)

\* XYZ -> TMS flip of a row
Flip(z, y) == Shl1(z) - 1 - y

\* ---------------------------------------------------------------------------
\* Inputs
\* ---------------------------------------------------------------------------

\* Names of top-level entries of the source tree
ZNames == {<<"0">>, <<"1">>, <<"t">>}

\* Names of entries of a zoom directory
XNames == {<<"0">>, <<"a">>}

\* Names of entries of a column directory
YFiles == {<<"0">> \o DotPng, <<"0">> \o DotJpg, <<"1">> \o DotJpeg,
           <<"a">> \o DotPng, <<"0", ".", "t", "x", "t">>}

\* Contents of a tile file
Blobs == {<< >>, <<1>>}

\* Request paths the server receives
UrlPath(z, x, y) == <<"/">> \o z \o <<"/">> \o x \o <<"/">> \o y

MetadataPath == <<"/", "m", "e", "t", "a", "d", "a", "t", "a">>

Requests ==
    { UrlPath(<<"0">>, <<"0">>, <<"0">> \o DotPng),
      UrlPath(<<"0">>, <<"0">>, <<"0">> \o DotJpg),
      UrlPath(<<"0">>, <<"0">>, <<"1">> \o DotPng),
      UrlPath(<<"1">>, <<"0">>, <<"0">> \o DotJpeg),
      UrlPath(<<"1">>, <<"0">>, <<"1">> \o DotPng),
      UrlPath(<<"9">>, <<"9">>, <<"9">> \o DotPng),
      UrlPath(<<"a", "b", "c">>, <<"0">>, <<"0">> \o DotPng),
      UrlPath(<<"0">>, <<"0">>, <<"0", ".", "x">> \o DotPng),
      UrlPath(<<"-", "1">>, <<"0">>, <<"0">> \o DotPng),
      UrlPath(<<"0">>, <<"0">>, <<"0">> \o DotPng \o <<"?", "v">>),
      MetadataPath,
      <<"/", "i", "n", "d", "e", "x">> }

\* ---------------------------------------------------------------------------
\* The container file
\* ---------------------------------------------------------------------------

\* kind: "missing" (no file), "garbage" (a file SQLite cannot read) or "db";
\* tables: whether the relations metadata and tiles exist;
\* tiles: rows <<zoom_level, tile_column, tile_row, tile_data>>;
\* metadata: rows <<name, value>> in insertion order.
Container(k, t, ts, md) == [kind |-> k, tables |-> t, tiles |-> ts, metadata |-> md]

Missing == Container("missing", FALSE, {}, << >>)
Garbage == Container("garbage", FALSE, {}, << >>)
EmptyDB == Container("db", FALSE, {}, << >>)
Fresh == Container("db", TRUE, {}, << >>)

\* A container left at the destination by an earlier build
OldContainer ==
    Container("db", TRUE, {<<1, 0, 1, <<9>>>>},
              << <<"name", "old.mbtiles">>, <<"format", "webp">> >>)

DstOptions == {Missing, Garbage, EmptyDB, OldContainer}

\* sqlite3.connect(path): creates the file when there is none
connect(c) == IF c.kind = "missing" THEN EmptyDB ELSE c

SameKey(r, s) == r[1] = s[1] /\ r[2] = s[2] /\ r[3] = s[3]

\* INSERT with no conflict clause: the row is added whatever the relation holds
InsertPlain(rel, row) == rel \cup {row}

\* INSERT OR REPLACE INTO tiles, under the unique index tile_index: the rows
\* in conflict with the new one are deleted, then the new row is inserted
Upsert(rel, row) == {t \in rel : ~SameKey(t, row)} \cup {row}

\* An additive open: an existing container is kept, its relations reused
OpenKeep(c) == IF c.kind = "db" /\ c.tables THEN c ELSE Fresh

\* os.remove(dst) when it exists, sqlite3.connect(dst), the schema, db.commit()
OpenFresh(c) ==
    LET removed == IF c.kind # "missing" THEN Missing ELSE c
        opened == connect(removed)
    IN  [opened EXCEPT !.tables = TRUE]

\* The rows written at the end of a run
MetadataRows(f, zmin, zmax) ==
    << <<"name", basename(Dst)>>,
       <<"type", "baselayer">>,
       <<"version", "1.0">>,
       <<"description", "Packed from XYZ folder">>,
       <<"format", Lower(f)>>,
       <<"minzoom", PyStr(IF zmin # ZMinSentinel THEN zmin ELSE 0)>>,
       <<"maxzoom", PyStr(IF zmax # ZMaxSentinel THEN zmax ELSE 0)>>,
       <<"attribution", "">> >>

Min(a, b) == IF a < b THEN a ELSE b
Max(a, b) == IF a > b THEN a ELSE b

\* sort key of a top-level entry: int(s) if s.isdigit() else 999
SortKey(s) == IF isdigit(s) THEN ParseNat(s) ELSE NonDigitKey

\* ---------------------------------------------------------------------------
\* State
\* ---------------------------------------------------------------------------

VARIABLES
    pc,        \* "start", "prepare", "walk", "done", "failed", "crashed"
    srcIsDir,  \* os.path.isdir(src)
    fmt,       \* the --format argument
    dst0,      \* the destination file when the run started
    disk,      \* the destination file: what a new connection reads
    tiles,     \* the tiles relation as the builder's connection sees it
    metadata,  \* the metadata relation as the builder's connection sees it
    count,     \* tiles inserted so far
    z_min,
    z_max,
    seenZ,     \* top-level entries already listed
    lastKey,   \* sort key of the last top-level entry listed
    curZ,      \* the zoom directory being listed, if any
    seenX,     \* entries of the zoom directory already listed
    curX,      \* the column directory being listed, if any
    seenY,     \* entries of the column directory already listed
    log,       \* the upserts executed, in order
    req,       \* the last request path handled
    resp       \* the response to it

vars == <<pc, srcIsDir, fmt, dst0, disk, tiles, metadata, count, z_min, z_max,
          seenZ, lastKey, curZ, seenX, curX, seenY, log, req, resp>>

walkVars == <<seenZ, lastKey, curZ, seenX, curX, seenY>>
srvVars == <<req, resp>>

NoDir == [dir |-> FALSE, n |-> 0]

NoResponse ==
    [route |-> "none", status |-> 0, headers |-> {}, body |-> << >>,
     json |-> {}, raised |-> FALSE]

Init ==
    /\ pc = "start"
    /\ srcIsDir \in BOOLEAN
    /\ fmt \in Formats
    /\ dst0 \in DstOptions
    /\ disk = dst0
    /\ tiles = {}
    /\ metadata = << >>
    /\ count = 0
    /\ z_min = ZMinSentinel
    /\ z_max = ZMaxSentinel
    /\ seenZ = {}
    /\ lastKey = 0
    /\ curZ = NoDir
    /\ seenX = {}
    /\ curX = NoDir
    /\ seenY = {}
    /\ log = << >>
    /\ req = << >>
    /\ resp = NoResponse

\* ---------------------------------------------------------------------------
\* The builder: xyz_to_mbtiles(src, dst, fmt)
\* ---------------------------------------------------------------------------

\* A builder that prepares the destination before it looks at the source
CheckSourceLate ==
    /\ pc = "start"
    /\ pc' = IF srcIsDir THEN "prepare" ELSE "failed"
    /\ disk' = OpenFresh(disk)
    /\ UNCHANGED <<srcIsDir, fmt, dst0, tiles, metadata, count, z_min, z_max,
                   log, walkVars, srvVars>>

\* if not os.path.isdir(src): raise SystemExit(...)
CheckSource ==
    /\ pc = "start"
    /\ pc' = IF srcIsDir THEN "prepare" ELSE "failed"
    /\ UNCHANGED <<srcIsDir, fmt, dst0, disk, tiles, metadata, count, z_min,
                   z_max, log, walkVars, srvVars>>

\* Prepare DB: remove an existing file, connect, create the schema, commit
PrepareDB ==
    /\ pc = "prepare"
    /\ disk' = OpenFresh(disk)
    /\ tiles' = disk'.tiles
    /\ metadata' = disk'.metadata
    /\ pc' = "walk"
    /\ UNCHANGED <<srcIsDir, fmt, dst0, count, z_min, z_max, log, walkVars,
                   srvVars>>

\* One iteration of the loop over the sorted top-level entries, up to the
\* listing of the zoom directory
VisitZ(z_name, isDir) ==
    /\ pc = "walk"
    /\ z_name \notin seenZ
    /\ SortKey(z_name) >= lastKey
    /\ seenZ' = seenZ \cup {z_name}
    /\ lastKey' = SortKey(z_name)
    /\ seenX' = {}
    /\ curX' = NoDir
    /\ seenY' = {}
    /\ IF ~isdigit(z_name)
       THEN /\ curZ' = NoDir
            /\ UNCHANGED <<z_min, z_max>>
       ELSE LET z == ParseNat(z_name)
            IN  /\ z_min' = Min(z_min, z)
                /\ z_max' = Max(z_max, z)
                /\ curZ' = IF isDir THEN [dir |-> TRUE, n |-> z] ELSE NoDir
    /\ UNCHANGED <<pc, srcIsDir, fmt, dst0, disk, tiles, metadata, count, log,
                   srvVars>>

\* One iteration of the loop over the entries of the zoom directory, up to
\* the listing of the column directory
VisitX(x_name, isDir) ==
    /\ pc = "walk"
    /\ curZ.dir
    /\ x_name \notin seenX
    /\ seenX' = seenX \cup {x_name}
    /\ seenY' = {}
    /\ curX' = IF isdigit(x_name) /\ isDir
               THEN [dir |-> TRUE, n |-> ParseNat(x_name)]
               ELSE NoDir
    /\ UNCHANGED <<pc, srcIsDir, fmt, dst0, disk, tiles, metadata, count, z_min,
                   z_max, log, seenZ, lastKey, curZ, srvVars>>

\* The file name filter of the innermost loop
IsTileFile(y_file) == HasTileExt(y_file) /\ isdigit(splitext_root(y_file))

\* One iteration of the loop over the entries of the column directory: the
\* filter, the flip, the upsert, and the commit at every BatchSize-th tile
VisitY(y_file, blob) ==
    /\ pc = "walk"
    /\ curX.dir
    /\ y_file \notin seenY
    /\ seenY' = seenY \cup {y_file}
    /\ IF ~IsTileFile(y_file)
       THEN UNCHANGED <<tiles, count, log, disk>>
       ELSE LET z == curZ.n
                x == curX.n
                y_xyz == ParseNat(splitext_root(y_file))
                y_tms == Flip(z, y_xyz)
            IN  /\ count < MaxTiles
                /\ tiles' = Upsert(tiles, <<z, x, y_tms, blob>>)
                /\ count' = count + 1
                /\ log' = Append(log, [z |-> z, x |-> x, y |-> y_xyz,
                                       row |-> y_tms, blob |-> blob])
                /\ disk' = IF count' % BatchSize = 0
                           THEN [disk EXCEPT !.tiles = tiles']
                           ELSE disk
    /\ UNCHANGED <<pc, srcIsDir, fmt, dst0, metadata, z_min, z_max, seenZ,
                   lastKey, curZ, seenX, curX, srvVars>>

\* The loops are left: their iterators are gone
WalkReturns ==
    /\ seenZ' = {}
    /\ lastKey' = 0
    /\ curZ' = NoDir
    /\ seenX' = {}
    /\ curX' = NoDir
    /\ seenY' = {}

\* Metadata: executemany, db.commit(), db.close()
WriteMetadata ==
    /\ pc = "walk"
    /\ metadata' = metadata \o MetadataRows(fmt, z_min, z_max)
    /\ disk' = [disk EXCEPT !.tiles = tiles, !.metadata = metadata']
    /\ pc' = "done"
    /\ WalkReturns
    /\ UNCHANGED <<srcIsDir, fmt, dst0, tiles, count, z_min, z_max, log,
                   srvVars>>

\* The tiles relation after the first k upserts of the run
RECURSIVE TilesAfter(_)
TilesAfter(k) ==
    IF k = 0 THEN {}
    ELSE Upsert(TilesAfter(k - 1),
                <<log[k].z, log[k].x, log[k].row, log[k].blob>>)

\* Upserts executed since the last commit
Unflushed == count % BatchSize

\* What the file can hold once the process has died inside a transaction.
\* The schema script sets journal_mode=OFF: there is no rollback journal, so
\* pages of the open transaction that reached the file stay there, and SQLite
\* documents the outcome as undefined (the file "will very likely go
\* corrupt").  The file is then as of the last commit, or holds some of the
\* later upserts, or is unreadable.
CrashOutcomes ==
    IF Unflushed = 0 THEN {disk}
    ELSE {[disk EXCEPT !.tiles = TilesAfter(k)] : k \in (count - Unflushed)..count}
         \cup {Garbage}

\* The run dies during the walk (the process is killed, or a read or a write
\* raises)
Crash ==
    /\ pc = "walk"
    /\ disk' \in CrashOutcomes
    /\ pc' = "crashed"
    /\ WalkReturns
    /\ UNCHANGED <<srcIsDir, fmt, dst0, tiles, metadata, count, z_min, z_max,
                   log, srvVars>>

\* ---------------------------------------------------------------------------
\* The server: MBTilesHandler
\* ---------------------------------------------------------------------------

None == [kind |-> "none"]
Raised == [kind |-> "raise"]

\* The body of get_tile's try block: connect, flip, SELECT, fetchone
query_tile(c, z, x, y) ==
    LET db == connect(c)
    IN  IF db.kind # "db" \/ ~db.tables THEN Raised
        ELSE IF z < 0 THEN Raised
        ELSE LET tms_y == Flip(z, y)
                 rows == {t \in db.tiles : t[1] = z /\ t[2] = x /\ t[3] = tms_y}
             IN  IF rows = {} THEN None
                 ELSE [kind |-> "row", data |-> (CHOOSE t \in rows : TRUE)[4]]

\* get_tile without its except clause
get_tile_uncaught(c, z, x, y) == query_tile(c, z, x, y)

\* get_tile: except Exception -> None
get_tile(c, z, x, y) ==
    LET r == query_tile(c, z, x, y)
    IN  IF r.kind = "raise" THEN None ELSE r

\* The body of get_metadata's try block: dict(cursor.fetchall()), a later row
\* of a name replacing an earlier one
query_metadata(c) ==
    LET db == connect(c)
        md == db.metadata
        lastOf(n) == CHOOSE i \in 1..Len(md) :
                        md[i][1] = n /\ \A j \in 1..Len(md) : md[j][1] = n => j <= i
    IN  IF db.kind # "db" \/ ~db.tables THEN Raised
        ELSE [kind |-> "dict",
              data |-> {<<md[i][1], md[lastOf(md[i][1])][2]>> : i \in 1..Len(md)}]

\* get_metadata: except Exception -> {}
get_metadata(c) ==
    LET r == query_metadata(c)
    IN  IF r.kind = "raise" THEN [kind |-> "dict", data |-> {}] ELSE r

Response(route, status, headers, body, json) ==
    [route |-> route, status |-> status, headers |-> headers, body |-> body,
     json |-> json, raised |-> FALSE]

\* An exception that leaves do_GET: no response is sent
Uncaught(route) ==
    [route |-> route, status |-> 0, headers |-> {}, body |-> << >>,
     json |-> {}, raised |-> TRUE]

TileHeaders ==
    {<<"Content-Type", "image/png">>,
     <<"Access-Control-Allow-Origin", "*">>,
     <<"Access-Control-Allow-Methods", "GET">>,
     <<"Access-Control-Allow-Headers", "Content-Type">>}

MetadataHeaders ==
    {<<"Content-Type", "application/json">>,
     <<"Access-Control-Allow-Origin", "*">>}

path_parts(path) == split(strip(urlparse_path(path), "/"), "/")

IsTileRequest(path) ==
    Len(path_parts(path)) = 3 /\ HasTileExt(path_parts(path)[3])

\* do_GET: the response to a request for path against container c
do_GET(c, path) ==
    LET parts == path_parts(path)
    IN  IF IsTileRequest(path)
        THEN LET zi == PyInt(parts[1])
                 xi == PyInt(parts[2])
                 yi == PyInt(split_first(parts[3], "."))
             IN  IF ~(zi.ok /\ xi.ok /\ yi.ok)
                 THEN Response("tile", 400, {}, << >>, {})
                 ELSE LET tile_data == get_tile(c, zi.val, xi.val, yi.val)
                      IN  IF tile_data.kind = "raise" THEN Uncaught("tile")
                          ELSE IF tile_data.kind = "row" /\ Len(tile_data.data) > 0
                          THEN Response("tile", 200, TileHeaders, tile_data.data, {})
                          ELSE Response("tile", 404, {}, << >>, {})
        ELSE IF path = MetadataPath
        THEN LET md == get_metadata(c)
             IN  IF md.kind = "raise" THEN Uncaught("metadata")
                 ELSE Response("metadata", 200, MetadataHeaders, << >>, md.data)
        ELSE Response("static", 0, {}, << >>, {})

\* Whether do_GET opens the container for this path
OpensStore(path) ==
    LET parts == path_parts(path)
    IN  IF IsTileRequest(path)
        THEN PyInt(parts[1]).ok /\ PyInt(parts[2]).ok
             /\ PyInt(split_first(parts[3], ".")).ok
        ELSE path = MetadataPath

\* The server handles one GET against the file at the destination once the
\* builder has returned: the built container, or what was there when the run
\* failed
Serve(path) ==
    /\ pc \in {"done", "failed"}
    /\ req' = path
    /\ resp' = do_GET(disk, path)
    /\ disk' = IF OpensStore(path) THEN connect(disk) ELSE disk
    /\ UNCHANGED <<pc, srcIsDir, fmt, dst0, tiles, metadata, count, z_min,
                   z_max, log, walkVars>>

\* ---------------------------------------------------------------------------
\* Specification
\* ---------------------------------------------------------------------------

Next ==
    \/ CheckSource
    \/ PrepareDB
    \/ \E z_name \in ZNames, isDir \in BOOLEAN : VisitZ(z_name, isDir)
    \/ \E x_name \in XNames, isDir \in BOOLEAN : VisitX(x_name, isDir)
    \/ \E y_file \in YFiles, blob \in Blobs : VisitY(y_file, blob)
    \/ WriteMetadata
    \/ Crash
    \/ \E path \in Requests : Serve(path)

Spec == Init /\ [][Next]_vars

\* ---------------------------------------------------------------------------
\* Properties
\* ---------------------------------------------------------------------------

\* Decimal digits of a natural number, as a path segment
RECURSIVE Dec(_)
Dec(n) == IF n < 10 THEN <<DigitChars[n + 1]>>
          ELSE Dec(n \div 10) \o <<DigitChars[(n % 10) + 1]>>

\* The k-th upsert is the last one made for its stored triple
LastForTriple(k) ==
    \A j \in (k + 1)..Len(log) :
        ~(log[j].z = log[k].z /\ log[j].x = log[k].x /\ log[j].row = log[k].row)

LogRow(k) == <<log[k].z, log[k].x, log[k].row, log[k].blob>>

\* The request /{z}/{x}/{y}.png for the k-th ingested file
PngRequest(k) == UrlPath(Dec(log[k].z), Dec(log[k].x), Dec(log[k].y) \o DotPng)

\* The integers of the last request, as do_GET reads them
ReqZ == PyInt(path_parts(req)[1])
ReqX == PyInt(path_parts(req)[2])
ReqY == PyInt(split_first(path_parts(req)[3], "."))
ReqIntsOk == ReqZ.ok /\ ReqX.ok /\ ReqY.ok

TileAnswered == resp.route = "tile"

InRange(z, r) == z >= 0 /\ r >= 0 /\ r <= Shl1(z) - 1

\* C1: a tile ingested at top-down (z, x, y) with bytes B (any byte string,
\* the empty one included) is answered 200 with body B by a later
\* GET /{z}/{x}/{y}.png against the built container.  Stated for the file that
\* was the last one ingested at its coordinate.
C1_RoundTrip ==
    \A k \in 1..Len(log) :
        (pc = "done" /\ TileAnswered /\ LastForTriple(k) /\ req = PngRequest(k))
            => (resp.status = 200 /\ resp.body = log[k].blob)

\* C2: the tiles relation holds at most one row per (zoom_level, tile_column,
\* tile_row), and the row of a triple holds the bytes of the last upsert made
\* for that triple; every triple upserted has its row.
C2_UniqueLastWriteWins ==
    /\ \A r, s \in tiles : SameKey(r, s) => r = s
    /\ \A t \in tiles : \E k \in 1..Len(log) : LastForTriple(k) /\ LogRow(k) = t
    /\ \A k \in 1..Len(log) : LastForTriple(k) => LogRow(k) \in tiles
    /\ pc = "done" => disk.tiles = tiles

C2_Witness ==
    /\ pc = "done"
    /\ Cardinality(disk.tiles) = 1
    /\ \E j, k \in 1..Len(log) :
          j < k /\ SameKey(LogRow(j), LogRow(k)) /\ log[j].blob # log[k].blob

\* The value of a metadata name in a container, "" when the name is absent
MetaValue(c, name) ==
    LET at == {i \in 1..Len(c.metadata) : c.metadata[i][1] = name}
    IN  IF at = {} THEN "" ELSE c.metadata[CHOOSE i \in at : TRUE][2]

IngestedZooms == {log[k].z : k \in 1..Len(log)}

\* C3: after a successful run minzoom is the decimal string of the smallest
\* zoom among the tiles ingested and maxzoom that of the largest; with no
\* tile ingested, whatever else the tree holds, both are "0".
C3_ZoomRange ==
    pc = "done" =>
        IF IngestedZooms = {}
        THEN MetaValue(disk, "minzoom") = "0" /\ MetaValue(disk, "maxzoom") = "0"
        ELSE /\ MetaValue(disk, "minzoom") =
                    PyStr(CHOOSE z \in IngestedZooms : \A w \in IngestedZooms : z <= w)
             /\ MetaValue(disk, "maxzoom") =
                    PyStr(CHOOSE z \in IngestedZooms : \A w \in IngestedZooms : w <= z)

\* The last segment of the request with its extension removed
ReqBaseName == splitext_root(path_parts(req)[3])

\* C4: a GET of three segments, the last ending in .png, .jpg or .jpeg, whose
\* z, x or y (the last segment without its extension) is no integer is
\* answered 400.
C4_Malformed400 ==
    (TileAnswered /\ ~(ReqZ.ok /\ ReqX.ok /\ PyInt(ReqBaseName).ok))
        => resp.status = 400

\* C5: against every container a build can produce, a tile request with
\* integer z, x, y where z < 0 or y lies outside [0, 2^z - 1] is answered 400
\* or 404, never 200: no out-of-range coordinate is returned.
C5_OutOfRangeNeverServed ==
    (pc = "done" /\ TileAnswered /\ ReqIntsOk /\ ~InRange(ReqZ.val, ReqY.val))
        => resp.status \in {400, 404}

Unreadable(c) == c.kind # "db" \/ ~c.tables

\* C6: no store error leaves the handler; against a container that is
\* missing, unreadable or without the relations a tile request is answered
\* 404 and /metadata 200 with an empty object; a well-formed coordinate that
\* is not stored is answered 404.
C6_ReadFailuresRecovered ==
    /\ ~resp.raised
    /\ (TileAnswered /\ ReqIntsOk /\ Unreadable(disk)) => resp.status = 404
    /\ (resp.route = "metadata" /\ Unreadable(disk))
            => (resp.status = 200 /\ resp.json = {})
    /\ (TileAnswered /\ ReqIntsOk /\ ~Unreadable(disk) /\ ReqZ.val >= 0
        /\ ~\E t \in disk.tiles :
              t[1] = ReqZ.val /\ t[2] = ReqX.val /\ t[3] = Flip(ReqZ.val, ReqY.val))
            => resp.status = 404

C6_Witness ==
    /\ dst0 = Garbage
    /\ TileAnswered
    /\ ReqIntsOk
    /\ resp.status = 404

\* The Content-Type of the image kind a request's extension names
KindOf(seg) ==
    IF endswith(seg, DotPng) THEN "image/png" ELSE "image/jpeg"

\* C7: a tile request that finds a tile is answered 200 with the stored
\* bytes, the Content-Type of the served image kind, and the three
\* cross-origin headers, for each of the extensions png, jpg and jpeg.
C7_HitResponseShape ==
    (TileAnswered /\ resp.status = 200) =>
        /\ <<ReqZ.val, ReqX.val, Flip(ReqZ.val, ReqY.val), resp.body>> \in disk.tiles
        /\ <<"Content-Type", KindOf(path_parts(req)[3])>> \in resp.headers
        /\ <<"Access-Control-Allow-Origin", "*">> \in resp.headers
        /\ <<"Access-Control-Allow-Methods", "GET">> \in resp.headers
        /\ <<"Access-Control-Allow-Headers", "Content-Type">> \in resp.headers

MetadataKeys ==
    {"name", "type", "version", "description", "format", "minzoom", "maxzoom",
     "attribution"}

\* C8: the metadata relation stays empty until the walk is over; after a
\* successful run, whatever the destination held before, the container holds
\* exactly the eight keys, each once, with type "baselayer", version "1.0",
\* format the configured one and attribution "", and no tile or metadata row
\* of the earlier container.
C8_MetadataOnceAtEnd ==
    /\ pc \in {"walk", "crashed"} => (metadata = << >> /\ disk.metadata = << >>)
    /\ pc = "done" =>
        /\ Len(disk.metadata) = 8
        /\ {disk.metadata[i][1] : i \in 1..8} = MetadataKeys
        /\ MetaValue(disk, "type") = "baselayer"
        /\ MetaValue(disk, "version") = "1.0"
        /\ MetaValue(disk, "format") = fmt
        /\ MetaValue(disk, "attribution") = ""
        /\ \A t \in disk.tiles : \E k \in 1..Len(log) : LogRow(k) = t
        /\ \A i \in 1..Len(disk.metadata) :
              \A j \in 1..Len(dst0.metadata) : disk.metadata[i] # dst0.metadata[j]

C8_Witness ==
    /\ pc = "done"
    /\ dst0 = OldContainer
    /\ count > 0

\* C9: fewer than a batch of upserts is ever unflushed, and after a crash the
\* container holds what the last flush wrote: the upserts since are lost
\* and nothing else.
C9_CrashConsistency ==
    /\ Unflushed < BatchSize
    /\ pc = "walk" => disk.tiles = TilesAfter(count - Unflushed)
    /\ pc = "crashed" =>
          (disk.kind = "db" /\ disk.tiles = TilesAfter(count - Unflushed))

\* C10: when the source root is no directory the run fails with the
\* destination untouched, and the destination is removed or written only
\* after the check has passed.
C10_SourceCheckFirst ==
    /\ pc = "failed" => ~srcIsDir
    /\ ~srcIsDir => pc \in {"start", "failed"}
    /\ (pc \in {"start", "failed"} /\ dst0.kind # "missing") => disk = dst0
    /\ (pc \in {"start", "failed"} /\ dst0.kind = "missing")
            => (disk.tiles = {} /\ disk.metadata = << >> /\ ~disk.tables)

C10_Witness ==
    /\ pc = "failed"
    /\ dst0 = OldContainer
    /\ resp.route = "metadata"
====
